---- MODULE Spec2Model ----
(***************************************************************************)
(* Offline-first synchronisation engine of the Attendance Portal.          *)
(*                                                                         *)
(*   server : POST /sync of the backend (createApp): dedupe ledger, LWW    *)
(*            comparison against the stored updated_at, soft delete.       *)
(*   client : the local store (students_local, attendance_local,           *)
(*            sync_queue) and the sync driver syncNow.                      *)
(*                                                                         *)
(* Instants are natural numbers; an ISO-8601 string on the wire is the     *)
(* record [kind |-> "iso", t |-> n].  JavaScript's undefined / null / 0 /  *)
(* "" are modelled by the falsy values None (numbers) and NoStr (strings). *)
(***************************************************************************)
EXTENDS Integers, Sequences, FiniteSets, TLC

VARIABLES
    \* ---- authoritative store (server) ----
    students,        \* rows of table students
    attendance,      \* rows of table attendance
    sync_dedupe,     \* rows of table sync_dedupe: <<teacher_id, op_id>>
    studentSeq,      \* last id minted for students
    attSeq,          \* last id minted for attendance
    now,             \* wall clock (server time and Date.now() of the client)
    \* ---- observation of the last POST /sync handled ----
    lastSync,        \* [teacher, operations, trace, applied, skipped, rejected]
    appliedLog,      \* <<teacher_id, op_id>> of every operation reported under applied so far
    reqCount,        \* number of earlier requests handled (bounded)
    posted,          \* operations that have reached POST /sync, with the installation that sent them
    installs,        \* installations of the app so far (bounded)
    \* ---- client: local store ----
    students_local,
    attendance_local,
    sync_queue,      \* sequence of rows, ascending id
    queueSeq,        \* AUTOINCREMENT of sync_queue
    \* ---- client: RosterScreen ----
    lastAdd,         \* observation of the last handleAdd
    \* ---- client: sync driver ----
    syncInFlight,    \* the module-level promise: TRUE when non-null
    nextAttemptByQueueId,
    pc,              \* position of the run inside syncNow
    batch,           \* rows the run read and kept
    request,         \* body of the POST in flight
    response,        \* what fetch resolved with
    online,          \* NetInfo isConnected
    telemetry,       \* events emitted by the current/last run
    run              \* observation of the current/last run

serverVars == <<students, attendance, sync_dedupe, studentSeq, attSeq>>
obsVars    == <<lastSync, appliedLog, reqCount, posted, installs>>
localVars  == <<students_local, attendance_local, sync_queue, queueSeq>>
driverVars == <<syncInFlight, nextAttemptByQueueId, pc, batch, request, response,
                telemetry, run>>
screenVars == <<lastAdd>>
vars == <<serverVars, now, obsVars, localVars, driverVars, online, screenVars>>

-----------------------------------------------------------------------------
(* Bounds of the model *)

MaxTime == 2          \* the clock runs 1..MaxTime
MaxRequests == 2      \* requests handled before the observed one (server-only specification)

None  == 0            \* undefined / null / 0 of a numeric field
NoStr == ""           \* undefined / "" of a string field
Null  == -1           \* the null Date of parseClientUpdatedAt

Times    == 1..MaxTime

Max(a, b) == IF a >= b THEN a ELSE b
Min(a, b) == IF a <= b THEN a ELSE b

-----------------------------------------------------------------------------
(* Wire format *)

Iso(t) == [kind |-> "iso", t |-> t]
BadDate == [kind |-> "bad", t |-> 0]
NoDate  == [kind |-> "missing", t |-> 0]

\* data of an operation: the union of the student and attendance payloads
Data(id, roll, name, sid, slid, date, status) ==
    [id |-> id, roll_no |-> roll, name |-> name, student_id |-> sid,
     student_local_id |-> slid, date |-> date, status |-> status]

StudentData(id, roll, name) == Data(id, roll, name, None, None, NoStr, NoStr)
AttData(sid, slid, date, status) == Data(None, None, NoStr, sid, slid, date, status)

Op(opId, entity, action, cua, data) ==
    [op_id |-> opId, entity |-> entity, action |-> action,
     client_updated_at |-> cua, data |-> data]

Verdict(kind, op, action, reason, id, sua) ==
    [kind |-> kind, op_id |-> op.op_id, entity |-> op.entity, action |-> action,
     reason |-> reason, id |-> id, server_updated_at |-> sua]

-----------------------------------------------------------------------------
(* Server: helpers of createApp *)

\* mutant of parseClientUpdatedAt: no check for an Invalid Date
parseClientUpdatedAt_NoNaNCheck(value) ==
    IF value.kind = "missing" THEN Null ELSE value.t

parseClientUpdatedAt(value) ==
    IF value.kind = "iso" /\ value.t > 0 THEN value.t ELSE Null

\* mutants of isIncomingNewer: ties favour the client; the comparison reversed
isIncomingNewer_TieWins(incoming, serverUpdatedAt) ==
    IF incoming = Null THEN FALSE
    ELSE IF serverUpdatedAt = None THEN TRUE
    ELSE incoming >= serverUpdatedAt

isIncomingNewer_Reversed(incoming, serverUpdatedAt) ==
    IF incoming = Null THEN FALSE
    ELSE IF serverUpdatedAt = None THEN TRUE
    ELSE incoming < serverUpdatedAt

isIncomingNewer(incoming, serverUpdatedAt) ==
    IF incoming = Null THEN FALSE
    ELSE IF serverUpdatedAt = None THEN TRUE
    ELSE incoming > serverUpdatedAt

\* The store the handler works on, as one value
Store(st, at, dd, sseq, aseq) ==
    [students |-> st, attendance |-> at, dedupe |-> dd,
     studentSeq |-> sseq, attSeq |-> aseq]

\* the key the unique constraint of sync_dedupe is on: the ledger is per principal
\* (the table's definition is not part of the backend's sources)
LedgerKey(teacherId, opId) == <<teacherId, opId>>

\* the insert into sync_dedupe collides (23505)
DedupeCollides(S, teacherId, opId) == LedgerKey(teacherId, opId) \in S.dedupe

\* mutant of DedupeInsert: the ledger row is not written
DedupeInsert_Forgotten(S, teacherId, opId) == S

DedupeInsert(S, teacherId, opId) ==
    [S EXCEPT !.dedupe = @ \cup {LedgerKey(teacherId, opId)}]

\* .from("students").select().eq("id", ..).eq("teacher_id", ..).maybeSingle()
StudentById(S, studentId, teacherId) ==
    {r \in S.students : r.id = studentId /\ r.teacher_id = teacherId}

\* mutant of StudentByRoll: the lookup by roll number is not scoped to the caller
StudentByRoll_AnyTeacher(S, teacherId, rollNo) ==
    {r \in S.students : r.roll_no = rollNo}

\* .from("students").select().eq("teacher_id", ..).eq("roll_no", ..).maybeSingle()
StudentByRoll(S, teacherId, rollNo) ==
    {r \in S.students : r.teacher_id = teacherId /\ r.roll_no = rollNo}

\* mutant of getStudentForTeacher: the lookup is not scoped to the caller
getStudentForTeacher_AnyTeacher(S, studentId, teacherId) ==
    {r \in S.students : r.id = studentId}


getStudentForTeacher(S, studentId, teacherId) == StudentById(S, studentId, teacherId)

AttendanceByKey(S, teacherId, studentId, date) ==
    {r \in S.attendance : r.teacher_id = teacherId /\ r.student_id = studentId
                          /\ r.date = date}

\* unique (teacher_id, roll_no) of students: would the write collide?
RollTaken(S, teacherId, rollNo, exceptId) ==
    \E r \in S.students : r.teacher_id = teacherId /\ r.roll_no = rollNo
                          /\ r.id # exceptId

The(set) == CHOOSE r \in set : TRUE


Result(S, out) == [S |-> S, out |-> out]

Rejected(op, reason) == Verdict("rejected", op, op.action, reason, None, None)
Stale(op, id, sua)   == Verdict("rejected", op, op.action, "Stale update (LWW)", id, sua)
ServerError(op)      == Verdict("rejected", op, op.action, "Server error", None, None)
Skipped(op)          == Verdict("skipped", op, op.action, "Duplicate op_id", None, None)
Applied(op, action, id, sua) == Verdict("applied", op, action, "", id, sua)

\* writes to the authoritative store; the store stamps updated_at with its clock
InsertStudentRow(S, teacherId, rollNo, name, t) ==
    [S EXCEPT !.studentSeq = @ + 1,
              !.students = @ \cup {[id |-> S.studentSeq + 1, teacher_id |-> teacherId,
                                    roll_no |-> rollNo, name |-> name,
                                    is_deleted |-> FALSE, updated_at |-> t]}]

UpdateStudentRow(S, row, rollNo, name, deleted, t) ==
    [S EXCEPT !.students = (@ \ {row}) \cup
        {[row EXCEPT !.roll_no = rollNo, !.name = name, !.is_deleted = deleted,
                     !.updated_at = t]}]

InsertAttendanceRow(S, teacherId, studentId, date, status, t) ==
    [S EXCEPT !.attSeq = @ + 1,
              !.attendance = @ \cup {[id |-> S.attSeq + 1, teacher_id |-> teacherId,
                                      student_id |-> studentId, date |-> date,
                                      status |-> status, is_deleted |-> FALSE,
                                      updated_at |-> t]}]

UpdateAttendanceRow(S, row, status, deleted, t) ==
    [S EXCEPT !.attendance = (@ \ {row}) \cup
        {[row EXCEPT !.status = status, !.is_deleted = deleted, !.updated_at = t]}]

\* entity "student", action "delete"
SyncStudentDelete(S, teacherId, op, clientUpdatedAt, t, fault) ==
    LET targetId == op.data.id
        rollNo   == op.data.roll_no
        existing == IF targetId # None THEN StudentById(S, targetId, teacherId)
                    ELSE IF rollNo # None THEN StudentByRoll(S, teacherId, rollNo)
                    ELSE {}
    IN  IF fault = "store" /\ (targetId # None \/ rollNo # None)
        THEN Result(S, <<ServerError(op)>>)
        ELSE IF existing = {} THEN Result(S, <<Rejected(op, "Student not found")>>)
        ELSE IF ~isIncomingNewer(clientUpdatedAt, The(existing).updated_at)
        THEN Result(S, <<Stale(op, None, The(existing).updated_at)>>)
        ELSE LET row == The(existing)
             IN  Result(UpdateStudentRow(S, row, row.roll_no, row.name, TRUE, t),
                        <<Applied(op, op.action, row.id, t)>>)

\* entity "student", action "create" or "update"
SyncStudentUpsert(S, teacherId, op, clientUpdatedAt, t, fault) ==
    LET targetId   == op.data.id
        name       == op.data.name
        parsedRoll == op.data.roll_no
        existing   == IF targetId # None THEN StudentById(S, targetId, teacherId)
                      ELSE StudentByRoll(S, teacherId, parsedRoll)
    IN  IF name = NoStr \/ parsedRoll <= 0
        THEN Result(S, <<Rejected(op, "Invalid student payload")>>)
        ELSE IF fault = "store" THEN Result(S, <<ServerError(op)>>)
        ELSE IF existing = {}
        THEN IF RollTaken(S, teacherId, parsedRoll, None)
             THEN Result(S, <<ServerError(op)>>)
             ELSE Result(InsertStudentRow(S, teacherId, parsedRoll, name, t),
                         <<Applied(op, "create", S.studentSeq + 1, t)>>)
        ELSE IF ~isIncomingNewer(clientUpdatedAt, The(existing).updated_at)
        THEN Result(S, <<Stale(op, The(existing).id, The(existing).updated_at)>>)
        ELSE LET row == The(existing)
             IN  IF RollTaken(S, teacherId, parsedRoll, row.id)
                 THEN Result(S, <<ServerError(op)>>)
                 ELSE Result(UpdateStudentRow(S, row, parsedRoll, name, FALSE, t),
                             <<Applied(op, "update", row.id, t)>>)

\* entity "attendance"
SyncAttendance(S, teacherId, op, clientUpdatedAt, t, fault) ==
    LET studentId  == op.data.student_id
        date       == op.data.date
        status     == op.data.status
        studentRow == getStudentForTeacher(S, studentId, teacherId)
        existing   == AttendanceByKey(S, teacherId, studentId, date)
    IN  IF studentId = None \/ date = NoStr
        THEN Result(S, <<Rejected(op, "Missing student_id or date")>>)
        ELSE IF fault = "store" THEN Result(S, <<ServerError(op)>>)
        ELSE IF studentRow = {}
        THEN Result(S, <<Rejected(op, "Student does not belong to teacher")>>)
        ELSE IF The(studentRow).is_deleted
        THEN Result(S, <<Rejected(op, "Student is deleted")>>)
        ELSE IF op.action = "delete"
        THEN IF existing = {} THEN Result(S, <<Rejected(op, "Attendance not found")>>)
             ELSE IF ~isIncomingNewer(clientUpdatedAt, The(existing).updated_at)
             THEN Result(S, <<Stale(op, The(existing).id, The(existing).updated_at)>>)
             ELSE LET row == The(existing)
                  IN  Result(UpdateAttendanceRow(S, row, row.status, TRUE, t),
                             <<Applied(op, op.action, row.id, t)>>)
        ELSE IF op.action \in {"create", "update"}
        THEN IF status \notin {"Present", "Absent"}
             THEN Result(S, <<Rejected(op, "Invalid status")>>)
             ELSE IF existing = {}
             THEN Result(InsertAttendanceRow(S, teacherId, studentId, date, status, t),
                         <<Applied(op, "create", S.attSeq + 1, t)>>)
             ELSE IF ~isIncomingNewer(clientUpdatedAt, The(existing).updated_at)
             THEN Result(S, <<Stale(op, The(existing).id, The(existing).updated_at)>>)
             ELSE LET row == The(existing)
                      S2  == UpdateAttendanceRow(S, row, status, FALSE, t)
                  IN  \* applied is pushed, then op_id is inserted into sync_dedupe a
                      \* second time; the collision is thrown into the per-operation
                      \* catch, which pushes a rejected entry for the same op_id
                      IF DedupeCollides(S2, teacherId, op.op_id)
                      THEN Result(S2, <<Applied(op, "update", row.id, t), ServerError(op)>>)
                      ELSE Result(DedupeInsert(S2, teacherId, op.op_id),
                                  <<Applied(op, "update", row.id, t)>>)
        ELSE Result(S, <<Rejected(op, "Unsupported action")>>)

\* one iteration of the loop over req.body.operations
ProcessOp(S, teacherId, op, t, fault) ==
    LET opId == op.op_id
        clientUpdatedAt == parseClientUpdatedAt(op.client_updated_at)
    IN  IF opId = NoStr THEN Result(S, <<Rejected(op, "Missing op_id")>>)
        ELSE IF op.entity = NoStr \/ op.action = NoStr
        THEN Result(S, <<Rejected(op, "Missing entity or action")>>)
        ELSE IF clientUpdatedAt = Null
        THEN Result(S, <<Rejected(op, "Invalid client_updated_at")>>)
        ELSE IF fault = "dedupe" THEN Result(S, <<ServerError(op)>>)
        ELSE IF DedupeCollides(S, teacherId, opId) THEN Result(S, <<Skipped(op)>>)
        ELSE LET S1 == DedupeInsert(S, teacherId, opId)
             IN  IF op.entity = "student"
                 THEN IF op.action = "delete"
                      THEN SyncStudentDelete(S1, teacherId, op, clientUpdatedAt, t, fault)
                      ELSE IF op.action \in {"create", "update"}
                      THEN SyncStudentUpsert(S1, teacherId, op, clientUpdatedAt, t, fault)
                      ELSE Result(S1, <<Rejected(op, "Unsupported action")>>)
                 ELSE IF op.entity = "attendance"
                 THEN SyncAttendance(S1, teacherId, op, clientUpdatedAt, t, fault)
                 ELSE Result(S1, <<Rejected(op, "Unsupported entity")>>)

\* mutant of ProcessBatch: a failed iteration ends the loop
RECURSIVE ProcessBatch_Aborts(_, _, _, _, _, _)
ProcessBatch_Aborts(S, teacherId, ops, faults, t, trace) ==
    IF ops = <<>> THEN [S |-> S, trace |-> trace]
    ELSE LET r == ProcessOp(S, teacherId, Head(ops), t, Head(faults))
             entry == [op |-> Head(ops), fault |-> Head(faults),
                       pre |-> S, post |-> r.S, out |-> r.out]
         IN  IF \E n \in 1..Len(r.out) : r.out[n].reason = "Server error"
             THEN [S |-> r.S, trace |-> Append(trace, entry)]
             ELSE ProcessBatch_Aborts(r.S, teacherId, Tail(ops), Tail(faults), t,
                                      Append(trace, entry))


\* the loop of the handler: ops[i] is processed under faults[i]; the trace keeps,
\* for every operation, the store before and after its iteration
RECURSIVE ProcessBatch(_, _, _, _, _, _)
ProcessBatch(S, teacherId, ops, faults, t, trace) ==
    IF ops = <<>> THEN [S |-> S, trace |-> trace]
    ELSE LET r == ProcessOp(S, teacherId, Head(ops), t, Head(faults))
         IN  ProcessBatch(r.S, teacherId, Tail(ops), Tail(faults), t,
                          Append(trace, [op |-> Head(ops), fault |-> Head(faults),
                                         pre |-> S, post |-> r.S, out |-> r.out]))

RECURSIVE Flatten(_)
Flatten(seqs) == IF seqs = <<>> THEN <<>> ELSE Head(seqs) \o Flatten(Tail(seqs))

SelectKind(verdicts, kind) == SelectSeq(verdicts, LAMBDA v : v.kind = kind)

\* res.json({ applied, skipped, rejected, server_time })
SyncResponse(teacherId, trace, t) ==
    LET all == Flatten([i \in 1..Len(trace) |-> trace[i].out])
    IN  [teacher |-> teacherId, trace |-> trace,
         applied  |-> SelectKind(all, "applied"),
         skipped  |-> SelectKind(all, "skipped"),
         rejected |-> SelectKind(all, "rejected"),
         server_time |-> t]


-----------------------------------------------------------------------------
(* Server-only specification: any authenticated caller posts any batch *)

CurrentStore == Store(students, attendance, sync_dedupe, studentSeq, attSeq)

OpIds    == {"q:1:1", "q:2:1"}
Statuses == {"Present", "Absent"}
TheDate  == "2026-02-08"

\* the payloads POST /sync is given: by roll number and by id; an unchanged roll and
\* a changed one (2 may collide with a row created meanwhile); a row of the caller,
\* no row, and a row of another teacher (student 2)
StudentPayloads ==
    {[action |-> "create", data |-> StudentData(None, 2, "B")],
     [action |-> "create", data |-> StudentData(None, 1, "B")],
     [action |-> "update", data |-> StudentData(1, 1, "B")],
     [action |-> "update", data |-> StudentData(1, 2, "A")],
     [action |-> "update", data |-> StudentData(2, 1, "B")],
     [action |-> "delete", data |-> StudentData(1, 1, NoStr)],
     [action |-> "delete", data |-> StudentData(None, 1, NoStr)],
     [action |-> "delete", data |-> StudentData(None, 2, NoStr)]}

AttendancePayloads ==
    {[action |-> "create", data |-> AttData(1, None, TheDate, "Present")],
     [action |-> "create", data |-> AttData(1, None, TheDate, "Absent")],
     [action |-> "update", data |-> AttData(1, None, TheDate, "Absent")],
     [action |-> "delete", data |-> AttData(1, None, TheDate, NoStr)],
     [action |-> "create", data |-> AttData(2, None, TheDate, "Present")],
     [action |-> "delete", data |-> AttData(3, None, TheDate, NoStr)]}

WellFormedStudentOps ==
    {Op(i, "student", p.action, Iso(c), p.data) :
        i \in OpIds, c \in Times, p \in StudentPayloads}

WellFormedAttendanceOps ==
    {Op(i, "attendance", p.action, Iso(c), p.data) :
        i \in OpIds, c \in Times, p \in AttendancePayloads}

MalformedOps ==
    {Op(NoStr, "student", "create", Iso(1), StudentData(None, 2, "A")),
     Op("q:1:1", NoStr, "create", Iso(1), StudentData(None, 2, "A")),
     Op("q:1:1", "student", NoStr, Iso(1), StudentData(None, 2, "A")),
     Op("q:1:1", "student", "create", BadDate, StudentData(None, 2, "A")),
     Op("q:1:1", "student", "create", NoDate, StudentData(None, 2, "A")),
     Op("q:1:1", "student", "create", Iso(1), StudentData(None, 2, NoStr)),
     Op("q:1:1", "student", "update", Iso(1), StudentData(None, None, "A")),
     Op("q:1:1", "student", "delete", Iso(1), StudentData(None, None, NoStr)),
     Op("q:1:1", "student", "upsert", Iso(1), StudentData(None, 2, "A")),
     Op("q:1:1", "branch", "create", Iso(1), StudentData(None, 2, "A")),
     Op("q:1:1", "attendance", "create", Iso(1), AttData(None, 1, TheDate, "Present")),
     Op("q:1:1", "attendance", "create", Iso(1), AttData(1, None, NoStr, "Present")),
     Op("q:1:1", "attendance", "create", Iso(1), AttData(1, None, TheDate, "Late")),
     Op("q:1:1", "attendance", "upsert", Iso(1), AttData(1, None, TheDate, "Present"))}

OpSpace == WellFormedStudentOps \cup WellFormedAttendanceOps \cup MalformedOps

\* operations that also go into two-operation batches, into faulty iterations and
\* into requests of the other teacher
CoreOps ==
    {Op("q:1:1", "student", "update", Iso(MaxTime), StudentData(None, 1, "B")),
     Op("q:1:1", "attendance", "create", Iso(1), AttData(1, None, TheDate, "Present")),
     Op("q:2:1", "attendance", "create", Iso(2), AttData(1, None, TheDate, "Absent"))}

\* the create of a roster entry with a new roll number, which also meets a failing store
NewStudentOps ==
    {Op(i, "student", "create", Iso(1), StudentData(None, 2, "B")) : i \in OpIds}

\* the same operations under a third op_id: the last operation of a batch of three
LaterOps == {[o EXCEPT !.op_id = "q:3:1"] : o \in CoreOps}

Requests ==
    {[teacher |-> "t1", ops |-> <<o>>, faults |-> <<"none">>] : o \in OpSpace}
    \cup
    {[teacher |-> "t1", ops |-> <<o>>, faults |-> <<f>>] :
        o \in CoreOps, f \in {"dedupe", "store"}}
    \cup
    {[teacher |-> "t1", ops |-> <<o>>, faults |-> <<"store">>] : o \in NewStudentOps}
    \cup
    {[teacher |-> "t2", ops |-> <<o>>, faults |-> <<"none">>] :
        o \in CoreOps \cup {Op("q:1:1", "student", "create", Iso(1),
                                StudentData(None, 2, "B"))}}
    \cup
    {[teacher |-> "t1", ops |-> <<o1, o2>>, faults |-> <<f, "none">>] :
        o1 \in CoreOps, o2 \in CoreOps, f \in {"none", "store"}}
    \cup
    {[teacher |-> "t1", ops |-> <<o1, o2, o3>>, faults |-> <<"none", f, "none">>] :
        o1 \in CoreOps, o2 \in CoreOps, o3 \in LaterOps, f \in {"dedupe", "store"}}

\* the <<teacher_id, op_id>> a trace reported under applied
AppliedOps(teacherId, trace) ==
    {<<teacherId, trace[j].op.op_id>> : j \in
        {i \in 1..Len(trace) : \E k \in 1..Len(trace[i].out) :
                                   trace[i].out[k].kind = "applied"}}

NoSync == [teacher |-> NoStr, operations |-> <<>>, trace |-> <<>>, applied |-> <<>>,
           skipped |-> <<>>, rejected |-> <<>>, server_time |-> None,
           appliedBefore |-> {}]

\* app.post("/sync", requireTeacherAuth, ...) for a caller authenticated as
\* q.teacher; keep: the response is the one the specification observes
HandleSync(q, keep) ==
    LET r    == ProcessBatch(CurrentStore, q.teacher, q.ops, q.faults, now, <<>>)
        resp == SyncResponse(q.teacher, r.trace, now)
    IN  /\ students'    = r.S.students
        /\ attendance'  = r.S.attendance
        /\ sync_dedupe' = r.S.dedupe
        /\ studentSeq'  = r.S.studentSeq
        /\ attSeq'      = r.S.attSeq
        /\ lastSync'    = IF keep
                          THEN [teacher |-> resp.teacher, operations |-> q.ops,
                                trace |-> resp.trace,
                                applied |-> resp.applied, skipped |-> resp.skipped,
                                rejected |-> resp.rejected,
                                server_time |-> resp.server_time,
                                appliedBefore |-> appliedLog]
                          ELSE lastSync
        /\ appliedLog'  = appliedLog \cup AppliedOps(q.teacher, r.trace)
        /\ UNCHANGED <<posted, installs>>

\* requests of the devices that came before: they build the history of the store
EarlierSync ==
    /\ lastSync = NoSync
    /\ reqCount < MaxRequests
    /\ \E q \in Requests : HandleSync(q, FALSE)
    /\ reqCount' = reqCount + 1
    /\ UNCHANGED <<now, localVars, driverVars, online>>
    /\ UNCHANGED screenVars

\* the request whose response is observed
PostSync ==
    /\ lastSync = NoSync
    /\ \E q \in Requests : HandleSync(q, TRUE)
    /\ UNCHANGED <<reqCount, now, localVars, driverVars, online>>
    /\ UNCHANGED screenVars

Tick ==
    /\ now < MaxTime
    /\ lastSync = NoSync
    /\ now' = now + 1
    /\ UNCHANGED <<serverVars, obsVars, localVars, driverVars, online>>
    /\ UNCHANGED screenVars

\* rows the authoritative store holds when the server starts
SeedStudents ==
    {[id |-> 1, teacher_id |-> "t1", roll_no |-> 1, name |-> "A",
      is_deleted |-> FALSE, updated_at |-> 1],
     [id |-> 2, teacher_id |-> "t2", roll_no |-> 1, name |-> "A",
      is_deleted |-> FALSE, updated_at |-> 1]}

-----------------------------------------------------------------------------
(* Client: the local store (offline/repo) of the device of teacher t1 *)

ClientTeacher == "t1"
MaxQueue   == 3          \* operations the device enqueues in a behaviour
MaxClock   == 2          \* the clock of the device-and-server specification runs 1..MaxClock
BatchLimit == 2          \* the 50 of getQueueBatch(50), scaled to the depth of the model's queue
MaxInstalls == 2         \* installations of the app on devices of the teacher in a behaviour
ClientName == "B"

\* the local store as one value
Local(st, at, q, qseq) ==
    [students |-> st, attendance |-> at, queue |-> q, queueSeq |-> qseq]

CurrentLocal == Local(students_local, attendance_local, sync_queue, queueSeq)

\* (a row of sync_queue keeps its payload as the parsed value; record_id is kept as
\* the number whose decimal string the column holds)
\* INSERT INTO sync_queue (...) VALUES (..., 0)
enqueueOp(L, entity, recordId, opType, payload, clientUpdatedAt) ==
    [L EXCEPT !.queueSeq = @ + 1,
              !.queue = Append(@, [id |-> L.queueSeq + 1, table_name |-> entity,
                                   record_id |-> recordId, op_type |-> opType,
                                   payload |-> payload,
                                   client_updated_at |-> clientUpdatedAt,
                                   attempts |-> 0])]

\* SELECT * FROM students_local WHERE teacher_id = ? AND roll_no = ?
getStudentLocalByRollNo(L, rollNo) == {s \in L.students : s.roll_no = rollNo}

getStudentLocalByLocalId(L, localId) == {s \in L.students : s.local_id = localId}

\* SELECT ... WHERE is_deleted = 0 ORDER BY roll_no ASC
RECURSIVE SortByRoll(_)
SortByRoll(set) ==
    IF set = {} THEN <<>>
    ELSE LET first == CHOOSE s \in set : \A o \in set : s.roll_no <= o.roll_no
         IN  <<first>> \o SortByRoll(set \ {first})

listStudentsLocal(L) == SortByRoll({s \in L.students : ~s.is_deleted})

\* UNIQUE(teacher_id, roll_no) of students_local: would the INSERT collide?
RollTakenLocal(L, rollNo) == getStudentLocalByRollNo(L, rollNo) # {}

\* upsertStudentLocal without localId: a plain INSERT, local_id by AUTOINCREMENT
\* (rows are never removed, so the next id is the number of rows plus one); the
\* INSERT throws when the roll number is taken, by a soft-deleted row as well
upsertStudentLocal(L, rollNo, name) ==
    IF RollTakenLocal(L, rollNo)
    THEN [threw |-> TRUE, L |-> L]
    ELSE [threw |-> FALSE,
          L |-> [L EXCEPT !.students = @ \cup
                    {[local_id |-> Cardinality(L.students) + 1,
                      server_id |-> None, roll_no |-> rollNo,
                      name |-> name, is_deleted |-> FALSE]}]]

softDeleteStudentLocal(L, localId) ==
    [L EXCEPT !.students = {IF s.local_id = localId THEN [s EXCEPT !.is_deleted = TRUE]
                            ELSE s : s \in @}]

AttendanceLocalByKey(L, studentLocalId, date) ==
    {a \in L.attendance : a.student_local_id = studentLocalId /\ a.date = date}

\* COALESCE(?, student_server_id)
Coalesce(value, old) == IF value # None THEN value ELSE old

upsertAttendanceLocal(L, date, status, studentLocalId, studentServerId) ==
    LET existing == AttendanceLocalByKey(L, studentLocalId, date)
    IN  IF existing # {}
        THEN [L EXCEPT !.attendance =
                 {IF a \in existing
                  THEN [a EXCEPT !.student_server_id = Coalesce(studentServerId, @),
                                 !.status = status, !.is_deleted = FALSE]
                  ELSE a : a \in @}]
        ELSE [L EXCEPT !.attendance = @ \cup
                 {[local_id |-> Cardinality(L.attendance) + 1, server_id |-> None,
                   student_local_id |-> studentLocalId,
                   student_server_id |-> studentServerId, date |-> date,
                   status |-> status, is_deleted |-> FALSE]}]

softDeleteAttendanceLocal(L, date, studentLocalId) ==
    [L EXCEPT !.attendance =
        {IF a.student_local_id = studentLocalId /\ a.date = date
         THEN [a EXCEPT !.is_deleted = TRUE] ELSE a : a \in @}]

\* SELECT * FROM sync_queue ORDER BY id ASC LIMIT ?
getQueueBatch(L, limit) == SubSeq(L.queue, 1, Min(limit, Len(L.queue)))

\* DELETE FROM sync_queue WHERE id IN (...)
deleteQueueRows(L, ids) ==
    [L EXCEPT !.queue = SelectSeq(@, LAMBDA row : row.id \notin ids)]

\* UPDATE sync_queue SET attempts = attempts + 1 WHERE id = ?
incrementQueueAttempts(L, id) ==
    LET q == L.queue
    IN  [L EXCEPT !.queue = [i \in 1..Len(q) |->
            IF q[i].id = id THEN [q[i] EXCEPT !.attempts = @ + 1] ELSE q[i]]]

updateQueuedAttendanceStudentId(L, studentLocalId, studentServerId) ==
    LET q == L.queue
    IN  [L EXCEPT !.queue = [i \in 1..Len(q) |->
            IF /\ q[i].table_name = "attendance"
               /\ q[i].payload.student_local_id = studentLocalId
               /\ q[i].payload.student_id = None
            THEN [q[i] EXCEPT !.payload.student_id = studentServerId]
            ELSE q[i]]]

\* mutant of attachServerIdToStudent: the server id is not written
attachServerIdToStudent_Forgotten(L, rollNo, serverId) == L

attachServerIdToStudent(L, rollNo, serverId) ==
    LET L1 == [L EXCEPT !.students =
                  {IF s.roll_no = rollNo THEN [s EXCEPT !.server_id = serverId]
                   ELSE s : s \in @}]
        studentRow == getStudentLocalByRollNo(L1, rollNo)
    IN  IF studentRow = {} THEN L1
        ELSE LET localId == The(studentRow).local_id
                 L2 == [L1 EXCEPT !.attendance =
                           {IF a.student_local_id = localId
                            THEN [a EXCEPT !.student_server_id = serverId]
                            ELSE a : a \in @}]
             IN  updateQueuedAttendanceStudentId(L2, localId, serverId)

attachServerIdToAttendance(L, localId, serverId) ==
    [L EXCEPT !.attendance =
        {IF a.local_id = localId THEN [a EXCEPT !.server_id = serverId]
         ELSE a : a \in @}]

-----------------------------------------------------------------------------
(* Client: the sync driver (offline/sync) *)

\* op_id: `q:${row.id}:${row.record_id}`
OpIdOf(id, recordId) == "q:" \o ToString(id) \o ":" \o ToString(recordId)

RecordIds == 1..(MaxQueue + 1)

\* item.op_id.match(/^q:(\d+):/) with m[1] = String(id)
MatchesQueueId(opId, id) == \E r \in RecordIds : opId = OpIdOf(id, r)

computeBackoffMs(attempts) ==
    LET exp == Min(6, Max(0, attempts))
    IN  Min(60000, 1000 * (2 ^ exp))

\* Date.now() in milliseconds; the clock counts seconds
DateNow == now * 1000

\* mutant of toSyncOperation: the op_id counts the attempts of the row
toSyncOperation_CountsAttempts(row) ==
    Op(OpIdOf(row.id, row.record_id + row.attempts), row.table_name, row.op_type,
       row.client_updated_at, row.payload)

toSyncOperation(row) ==
    Op(OpIdOf(row.id, row.record_id), row.table_name, row.op_type,
       row.client_updated_at, row.payload)

\* const next = nextAttemptByQueueId.get(row.id); return !next || next <= now
DueNow(row) == \A e \in nextAttemptByQueueId : e[1] = row.id => e[2] <= DateNow

TableRows(rows, table) == SelectSeq(rows, LAMBDA r : r.table_name = table)

\* mutant of ToOperations: the rows are sent in queue order
ToOperations_QueueOrder(rows) == [i \in 1..Len(rows) |-> toSyncOperation(rows[i])]


ToOperations(rows) ==
    LET ordered == TableRows(rows, "student") \o TableRows(rows, "attendance")
    IN  [i \in 1..Len(ordered) |-> toSyncOperation(ordered[i])]

Event(type, queued, applied, rejected) ==
    [type |-> type, queued |-> queued, applied |-> applied, rejected |-> rejected]

\* mutant of EmptyQueueEvent: the run announces itself and says no more
EmptyQueueEvent_Start == Event("sync_start", 0, 0, 0)

\* emitSyncTelemetry({ type: "sync_end", queued: 0, applied: 0, rejected: 0 })
EmptyQueueEvent == Event("sync_end", 0, 0, 0)

NoBody == [applied |-> <<>>, skipped |-> <<>>, rejected |-> <<>>, server_time |-> None]
NoResponse == [ok |-> FALSE, status |-> None, body |-> NoBody]

NoRun == [active |-> 0, posts |-> 0, call |-> "none", callInFlight |-> FALSE,
          outcome |-> "none", queueAtRead |-> <<>>, lostApplied |-> {},
          lastEmpty |-> FALSE, queueSeqAtStart |-> 0]

\* mutant of InFlight: the guard never sees the run in flight
InFlight_Ignored(promise) == FALSE

\* if (syncInFlight) return syncInFlight;
InFlight(promise) == promise

\* a call of syncNow, as far as the driver's state goes: it joins the run in flight,
\* or starts one (the body runs up to its first await and the promise is stored).
\* The screens call it after their local writes: queueSeqAtStart observes the last
\* id of sync_queue at the call that starts the run.
syncNow ==
    IF InFlight(syncInFlight)
    THEN /\ run' = [run EXCEPT !.call = "joined", !.callInFlight = syncInFlight]
         /\ UNCHANGED <<syncInFlight, nextAttemptByQueueId, pc, batch, request,
                        response, telemetry>>
    ELSE /\ syncInFlight' = TRUE
         /\ pc' = "isOnline"
         /\ batch' = <<>>
         /\ request' = <<>>
         /\ response' = NoResponse
         /\ telemetry' = <<>>
         /\ run' = [active |-> run.active + 1, posts |-> 0, call |-> "started",
                    callInFlight |-> syncInFlight, outcome |-> "none",
                    queueAtRead |-> <<>>, lostApplied |-> {},
                    lastEmpty |-> run.lastEmpty, queueSeqAtStart |-> queueSeq']
         /\ UNCHANGED nextAttemptByQueueId

\* what a screen does after its local writes: if (online && accessToken) await syncNow()
SyncIfOnline == IF online THEN syncNow ELSE UNCHANGED driverVars

SetLocal(L) ==
    /\ students_local' = L.students
    /\ attendance_local' = L.attendance
    /\ sync_queue' = L.queue
    /\ queueSeq' = L.queueSeq

-----------------------------------------------------------------------------
(* Client: the screens that write the local store and enqueue operations *)

ClientRolls == {2}

NoAdd == [roll_no |-> None, found |-> FALSE, threw |-> FALSE, live |-> FALSE]

\* what handleAdd left behind: found: the roll number had a local row when it was
\* called; threw: the catch branch ran; live: the row of the roll number is there
\* and not soft-deleted when it returns
AddOutcome(L, rollNo, threw, after) ==
    [roll_no |-> rollNo, found |-> RollTakenLocal(L, rollNo), threw |-> threw,
     live |-> \E s \in getStudentLocalByRollNo(after, rollNo) : ~s.is_deleted]

\* RosterScreen.handleAdd: a roll number the local roster already holds makes the
\* INSERT fail (UNIQUE); the catch branch sets addError, nothing is written or
\* enqueued and no sync is started
AddStudent ==
    /\ queueSeq < MaxQueue
    /\ \E rollNo \in ClientRolls :
        LET r == upsertStudentLocal(CurrentLocal, rollNo, ClientName)
        IN  IF r.threw
            THEN /\ lastAdd' = AddOutcome(CurrentLocal, rollNo, TRUE, CurrentLocal)
                 /\ UNCHANGED <<localVars, driverVars>>
            ELSE LET created == The(getStudentLocalByRollNo(r.L, rollNo))
                 IN  /\ SetLocal(enqueueOp(r.L, "student", created.local_id,
                                           IF created.server_id # None THEN "update"
                                           ELSE "create",
                                           StudentData(created.server_id,
                                                       created.roll_no, created.name),
                                           Iso(now)))
                     /\ lastAdd' = AddOutcome(CurrentLocal, rollNo, FALSE, r.L)
                     /\ SyncIfOnline
    /\ UNCHANGED <<serverVars, now, obsVars, online>>

\* RosterScreen.handleDelete
DeleteStudent ==
    /\ queueSeq < MaxQueue
    /\ \E target \in students_local :
        /\ ~target.is_deleted
        /\ SetLocal(enqueueOp(softDeleteStudentLocal(CurrentLocal, target.local_id),
                              "student", target.local_id, "delete",
                              StudentData(target.server_id, target.roll_no, NoStr),
                              Iso(now)))
    /\ SyncIfOnline
    /\ UNCHANGED <<serverVars, now, obsVars, online>>
    /\ UNCHANGED screenVars

\* the loop of saveAttendance over the roster on screen
RECURSIVE SaveLoop(_, _, _, _)
SaveLoop(L, studs, records, clientUpdatedAt) ==
    IF studs = <<>> THEN L
    ELSE LET student == Head(studs)
             status == records[student.local_id]
             studentRow == getStudentLocalByLocalId(L, student.local_id)
             studentServerId == IF studentRow = {} THEN None
                                ELSE The(studentRow).server_id
             next ==
                 IF status # NoStr
                 THEN LET L1 == upsertAttendanceLocal(L, TheDate, status,
                                                      student.local_id, studentServerId)
                          localRow == The(AttendanceLocalByKey(L1, student.local_id,
                                                               TheDate))
                      IN  enqueueOp(L1, "attendance", localRow.local_id,
                                    IF localRow.server_id # None THEN "update"
                                    ELSE "create",
                                    AttData(studentServerId, student.local_id, TheDate,
                                            status),
                                    clientUpdatedAt)
                 ELSE enqueueOp(softDeleteAttendanceLocal(L, TheDate, student.local_id),
                                "attendance", student.local_id, "delete",
                                AttData(studentServerId, student.local_id, TheDate,
                                        NoStr),
                                clientUpdatedAt)
         IN  SaveLoop(next, Tail(studs), records, clientUpdatedAt)

\* AttendanceContext.saveAttendance: records maps a student on screen to the status
\* chosen for it, or to nothing
SaveAttendance ==
    LET studs == listStudentsLocal(CurrentLocal)
        ids   == {studs[i].local_id : i \in 1..Len(studs)}
    IN  /\ studs # <<>>
        /\ queueSeq + Len(studs) <= MaxQueue
        /\ \E records \in [ids -> Statuses \cup {NoStr}] :
               SetLocal(SaveLoop(CurrentLocal, studs, records, Iso(now)))
        /\ SyncIfOnline
        /\ UNCHANGED <<serverVars, now, obsVars, online, screenVars>>

\* SyncListener: NetInfo reports a state; a connected one triggers syncNow
NetInfoEvent ==
    /\ UNCHANGED <<serverVars, now, obsVars, localVars>>
    /\ UNCHANGED screenVars
    /\ \E isConnected \in BOOLEAN :
        /\ online' = isConnected
        /\ IF isConnected THEN syncNow ELSE UNCHANGED driverVars

-----------------------------------------------------------------------------
(* Client: the run of syncNow, one action per stretch between awaits *)

\* const online = await isOnline(); if (!online) return;
RunIsOnline ==
    /\ pc = "isOnline"
    /\ IF online
       THEN /\ pc' = "getQueueBatch"
            /\ UNCHANGED run
       ELSE /\ pc' = "finally"
            /\ run' = [run EXCEPT !.outcome = "offline"]
    /\ UNCHANGED <<syncInFlight, nextAttemptByQueueId, batch, request, response,
                   telemetry>>
    /\ UNCHANGED <<serverVars, now, obsVars, localVars, online>>
    /\ UNCHANGED screenVars

\* getQueueBatch, the backoff filter, and the POST being issued
RunReadBatch ==
    /\ pc = "getQueueBatch"
    /\ LET batchAll == getQueueBatch(CurrentLocal, BatchLimit)
           due      == SelectSeq(batchAll, DueNow)
       IN  IF batchAll = <<>>
           THEN /\ telemetry' = Append(telemetry, EmptyQueueEvent)
                /\ pc' = "finally"
                /\ run' = [run EXCEPT !.outcome = "empty", !.queueAtRead = sync_queue]
                /\ UNCHANGED <<batch, request>>
           ELSE /\ batch' = due
                /\ telemetry' = Append(telemetry, Event("sync_start", Len(due), 0, 0))
                /\ IF due = <<>>
                   THEN /\ pc' = "finally"
                        /\ run' = [run EXCEPT !.outcome = "backoff",
                                              !.queueAtRead = sync_queue]
                        /\ UNCHANGED request
                   ELSE /\ request' = ToOperations(due)
                        /\ pc' = "fetch"
                        /\ run' = [run EXCEPT !.posts = @ + 1,
                                              !.queueAtRead = sync_queue]
    /\ UNCHANGED <<syncInFlight, nextAttemptByQueueId, response>>
    /\ UNCHANGED <<serverVars, now, obsVars, localVars, online>>
    /\ UNCHANGED screenVars

NoFaults(ops) == [i \in 1..Len(ops) |-> "none"]

\* the request reaches POST /sync, which answers 200; responseLost: the connection
\* drops before the answer arrives and fetch rejects
DeliverSync ==
    /\ pc = "fetch"
    /\ \E responseLost \in BOOLEAN :
        LET r    == ProcessBatch(CurrentStore, ClientTeacher, request, NoFaults(request),
                                 now, <<>>)
            resp == SyncResponse(ClientTeacher, r.trace, now)
        IN  /\ students'    = r.S.students
            /\ attendance'  = r.S.attendance
            /\ sync_dedupe' = r.S.dedupe
            /\ studentSeq'  = r.S.studentSeq
            /\ attSeq'      = r.S.attSeq
            /\ IF responseLost
               THEN /\ pc' = "finally"
                    /\ run' = [run EXCEPT !.outcome = "threw",
                                          !.lostApplied = {resp.applied[n].op_id :
                                                              n \in 1..Len(resp.applied)}]
                    /\ UNCHANGED response
               ELSE /\ pc' = "response"
                    /\ response' = [ok |-> TRUE, status |-> 200,
                                    body |-> [applied |-> resp.applied,
                                              skipped |-> resp.skipped,
                                              rejected |-> resp.rejected,
                                              server_time |-> resp.server_time]]
                    /\ UNCHANGED run
    /\ posted' = posted \cup {[install |-> installs, op |-> request[i]] :
                                 i \in 1..Len(request)}
    /\ UNCHANGED <<syncInFlight, nextAttemptByQueueId, batch, request, telemetry>>
    /\ UNCHANGED <<now, lastSync, appliedLog, reqCount, installs, localVars, online>>
    /\ UNCHANGED screenVars

\* the request never reaches the server: fetch rejects, nothing in syncNow catches it
FetchRejects ==
    /\ pc = "fetch"
    /\ pc' = "finally"
    /\ run' = [run EXCEPT !.outcome = "threw"]
    /\ UNCHANGED <<syncInFlight, nextAttemptByQueueId, batch, request, response,
                   telemetry>>
    /\ UNCHANGED <<serverVars, now, obsVars, localVars, online>>
    /\ UNCHANGED screenVars

\* the server answers without running the handler: 401 of requireTeacherAuth, 500 of
\* the error middleware
RespondNon2xx ==
    /\ pc = "fetch"
    /\ \E status \in {401, 500} :
        response' = [ok |-> FALSE, status |-> status, body |-> NoBody]
    /\ pc' = "response"
    /\ UNCHANGED <<syncInFlight, nextAttemptByQueueId, batch, request, telemetry, run>>
    /\ UNCHANGED <<serverVars, now, obsVars, localVars, online>>
    /\ UNCHANGED screenVars

\* if (!response.ok): every row of the batch
RECURSIVE IncrementAll(_, _)
IncrementAll(L, rows) ==
    IF rows = <<>> THEN L
    ELSE IncrementAll(incrementQueueAttempts(L, Head(rows).id), Tail(rows))

ScheduleRetry(entries, rows) ==
    {e \in entries : e[1] \notin {rows[i].id : i \in 1..Len(rows)}}
    \cup {<<rows[i].id, DateNow + computeBackoffMs(rows[i].attempts + 1)>> :
             i \in 1..Len(rows)}

\* batch.find((b) => String(b.id) === qid[1])
FindRow(rows, opId) ==
    LET found == SelectSeq(rows, LAMBDA b : MatchesQueueId(opId, b.id))
    IN  IF found = <<>> THEN {} ELSE {Head(found)}

\* one iteration of the loop over result.applied
ApplyItem(L, item, rows) ==
    LET row == FindRow(rows, item.op_id)
    IN  IF row = {} \/ item.id = None THEN L
        ELSE IF item.entity = "student" /\ item.action \in {"create", "update"}
        THEN IF The(row).payload.roll_no # None
             THEN attachServerIdToStudent(L, The(row).payload.roll_no, item.id)
             ELSE L
        ELSE IF item.entity = "attendance" /\ item.action \in {"create", "update"}
        THEN attachServerIdToAttendance(L, The(row).record_id, item.id)
        ELSE L

RECURSIVE ApplyAll(_, _, _)
ApplyAll(L, items, rows) ==
    IF items = <<>> THEN L
    ELSE ApplyAll(ApplyItem(L, Head(items), rows), Tail(items), rows)

\* mutant of DeleteIds: once something was applied the whole queue is cleared
DeleteIds_WholeQueue(rows, applied) ==
    IF applied = <<>> THEN {} ELSE {sync_queue[i].id : i \in 1..Len(sync_queue)}

\* batch.filter((row) => appliedIds.has(String(row.id))).map((row) => row.id)
DeleteIds(rows, applied) ==
    {rows[i].id : i \in {k \in 1..Len(rows) :
        \E n \in 1..Len(applied) : MatchesQueueId(applied[n].op_id, rows[k].id)}}

\* everything after the await of fetch
RunHandleResponse ==
    /\ pc = "response"
    /\ IF ~response.ok
       THEN /\ SetLocal(IncrementAll(CurrentLocal, batch))
            /\ nextAttemptByQueueId' = ScheduleRetry(nextAttemptByQueueId, batch)
            /\ telemetry' = Append(telemetry, Event("sync_error", Len(batch), 0, 0))
            /\ run' = [run EXCEPT !.outcome = "http_error"]
       ELSE LET result    == response.body
                deleteIds == DeleteIds(batch, result.applied)
            IN  /\ SetLocal(deleteQueueRows(ApplyAll(CurrentLocal, result.applied, batch),
                                            deleteIds))
                /\ nextAttemptByQueueId' =
                       {e \in nextAttemptByQueueId : e[1] \notin deleteIds}
                /\ telemetry' = Append(telemetry,
                                       Event("sync_end", Len(batch), Len(result.applied),
                                             Len(result.rejected)))
                /\ run' = [run EXCEPT !.outcome = "ok"]
    /\ pc' = "finally"
    /\ UNCHANGED <<syncInFlight, batch, request, response>>
    /\ UNCHANGED <<serverVars, now, obsVars, online>>
    /\ UNCHANGED screenVars

\* .finally(() => { syncInFlight = null; }); the locals of the run are gone
\* mutant of GuardAfterRun: the guard is cleared by the last statement of the run's
\* body, which a thrown exception does not reach
GuardAfterRun_BodyEnd(outcome) == outcome = "threw"

\* .finally(() => { syncInFlight = null; }): whether the guard is still set once the
\* promise of the run has settled, fulfilled or rejected
GuardAfterRun(outcome) == FALSE

RunFinally ==
    /\ pc = "finally"
    /\ syncInFlight' = GuardAfterRun(run.outcome)
    /\ pc' = "idle"
    /\ batch' = <<>>
    /\ request' = <<>>
    /\ response' = NoResponse
    /\ telemetry' = <<>>
    /\ run' = [NoRun EXCEPT !.active = run.active - 1,
                            !.lastEmpty = (run.outcome = "empty")]
    /\ UNCHANGED nextAttemptByQueueId
    /\ UNCHANGED <<serverVars, now, obsVars, localVars, online>>
    /\ UNCHANGED screenVars

ClockTick ==
    /\ now < MaxClock
    /\ now' = now + 1
    /\ UNCHANGED <<serverVars, obsVars, localVars, driverVars, online>>
    /\ UNCHANGED screenVars

-----------------------------------------------------------------------------
(* A fresh installation *)

\* the teacher installs the app anew (after an uninstall, or on another device): the
\* database file is created empty by CREATE TABLE IF NOT EXISTS, so the AUTOINCREMENT
\* ids of sync_queue and of students_local start again at 1, and the driver's module
\* state (syncInFlight, nextAttemptByQueueId) is that of a fresh process.  The server
\* keeps its rows and its ledger.
Reinstall ==
    /\ pc = "idle"
    /\ installs < MaxInstalls
    /\ installs' = installs + 1
    /\ students_local' = {}
    /\ attendance_local' = {}
    /\ sync_queue' = <<>>
    /\ queueSeq' = 0
    /\ syncInFlight' = FALSE
    /\ nextAttemptByQueueId' = {}
    /\ pc' = "idle"
    /\ batch' = <<>>
    /\ request' = <<>>
    /\ response' = NoResponse
    /\ telemetry' = <<>>
    /\ run' = NoRun
    /\ lastAdd' = NoAdd
    /\ UNCHANGED <<serverVars, now, lastSync, appliedLog, reqCount, posted, online>>

------------------------------------------------------------------------------
(* Specifications *)

InitStore ==
    /\ students = SeedStudents
    /\ attendance = {}
    /\ sync_dedupe = {}
    /\ studentSeq = 2
    /\ attSeq = 0
    /\ now = 1
    /\ lastSync = NoSync
    /\ appliedLog = {}
    /\ reqCount = 0
    /\ posted = {}
    /\ installs = 1

InitDriver ==
    /\ syncInFlight = FALSE
    /\ nextAttemptByQueueId = {}
    /\ pc = "idle"
    /\ batch = <<>>
    /\ request = <<>>
    /\ response = NoResponse
    /\ telemetry = <<>>
    /\ run = NoRun

\* POST /sync alone: the device stays as constructed
InitServer ==
    /\ InitStore
    /\ students_local = {}
    /\ attendance_local = {}
    /\ sync_queue = <<>>
    /\ queueSeq = 0
    /\ InitDriver
    /\ online = TRUE
    /\ lastAdd = NoAdd

NextServer == EarlierSync \/ PostSync \/ Tick

SpecServer == InitServer /\ [][NextServer]_vars

\* one device of teacher t1, freshly installed, and the server
InitDevice ==
    /\ InitStore
    /\ students_local = {}
    /\ attendance_local = {}
    /\ sync_queue = <<>>
    /\ queueSeq = 0
    /\ InitDriver
    /\ online \in BOOLEAN
    /\ lastAdd = NoAdd

NextDevice ==
    \/ AddStudent
    \/ DeleteStudent
    \/ SaveAttendance
    \/ NetInfoEvent
    \/ RunIsOnline
    \/ RunReadBatch
    \/ DeliverSync
    \/ FetchRejects
    \/ RespondNon2xx
    \/ RunHandleResponse
    \/ RunFinally
    \/ ClockTick

SpecDevice == InitDevice /\ [][NextDevice]_vars


\* the run of syncNow is a chain of promise continuations: once a stretch can run the
\* event loop runs it, and fetch does not stay pending for ever.  (DeliverSync,
\* FetchRejects and RespondNon2xx are enabled in the same states, pc = "fetch", and
\* each of them leaves those states, so weak fairness of one of them says that fetch
\* settles in one of the three ways.)
RunProgresses ==
    /\ WF_vars(RunIsOnline)
    /\ WF_vars(RunReadBatch)
    /\ WF_vars(FetchRejects)
    /\ WF_vars(RunHandleResponse)
    /\ WF_vars(RunFinally)

SpecDeviceFair == InitDevice /\ [][NextDevice]_vars /\ RunProgresses


\* the teacher adds roster entries on one installation and then on a second one, with
\* a server that answers every request it receives
NextReinstall ==
    \/ AddStudent
    \/ NetInfoEvent
    \/ RunIsOnline
    \/ RunReadBatch
    \/ DeliverSync
    \/ RunHandleResponse
    \/ RunFinally
    \/ ClockTick
    \/ Reinstall

SpecReinstall == InitDevice /\ [][NextReinstall]_vars


\* a device whose roster was hydrated from the server (roster entry 1 of t1) and that
\* is offline since; meanwhile the mark of that entry for TheDate was made elsewhere
\* (the server holds it); the teacher saves attendance on the device, several times
HydratedStudents ==
    {[local_id |-> 1, server_id |-> 1, roll_no |-> 1, name |-> "A", is_deleted |-> FALSE]}

MarkedElsewhere ==
    {[id |-> 1, teacher_id |-> "t1", student_id |-> 1, date |-> TheDate,
      status |-> "Present", is_deleted |-> FALSE, updated_at |-> 1]}

InitBacklog ==
    /\ students = SeedStudents
    /\ attendance = MarkedElsewhere
    /\ sync_dedupe = {}
    /\ studentSeq = 2
    /\ attSeq = 1
    /\ now = 1
    /\ lastSync = NoSync
    /\ appliedLog = {}
    /\ reqCount = 0
    /\ posted = {}
    /\ installs = 1
    /\ students_local = HydratedStudents
    /\ attendance_local = {}
    /\ sync_queue = <<>>
    /\ queueSeq = 0
    /\ InitDriver
    /\ online = FALSE
    /\ lastAdd = NoAdd

NextBacklog ==
    \/ SaveAttendance
    \/ NetInfoEvent
    \/ RunIsOnline
    \/ RunReadBatch
    \/ DeliverSync
    \/ FetchRejects
    \/ RespondNon2xx
    \/ RunHandleResponse
    \/ RunFinally
    \/ ClockTick

SpecBacklog == InitBacklog /\ [][NextBacklog]_vars /\ RunProgresses


-----------------------------------------------------------------------------
(* Properties of POST /sync, stated on the observed request *)

TraceIdx == 1..Len(lastSync.trace)
Entry(i) == lastSync.trace[i]

HasKind(out, kind) == \E n \in 1..Len(out) : out[n].kind = kind

\* the operation of entry i was reported under applied by an earlier request of the
\* same teacher, or by an earlier iteration of this request
AppliedEarlier(i) ==
    \/ <<lastSync.teacher, Entry(i).op.op_id>> \in lastSync.appliedBefore
    \/ \E j \in 1..(i - 1) : /\ Entry(j).op.op_id = Entry(i).op.op_id
                             /\ HasKind(Entry(j).out, "applied")

RowsUnchanged(e) ==
    /\ e.post.students = e.pre.students
    /\ e.post.attendance = e.pre.attendance

\* the operation passes the validation of op_id, entity, action, client_updated_at
Validated(op) ==
    /\ op.op_id # NoStr
    /\ op.entity # NoStr
    /\ op.action # NoStr
    /\ parseClientUpdatedAt(op.client_updated_at) # Null

\* the stored record an operation is about, as the handler looks it up
TargetRows(S, teacherId, op) ==
    IF op.entity = "student"
    THEN IF op.data.id # None THEN StudentById(S, op.data.id, teacherId)
         ELSE StudentByRoll(S, teacherId, op.data.roll_no)
    ELSE IF op.entity = "attendance"
    THEN AttendanceByKey(S, teacherId, op.data.student_id, op.data.date)
    ELSE {}

\* the entity-specific payload checks that precede the LWW comparison
PayloadAccepted(S, teacherId, op) ==
    IF op.entity = "student"
    THEN op.action = "delete" \/ (op.data.name # NoStr /\ op.data.roll_no > 0)
    ELSE /\ op.data.student_id # None
         /\ op.data.date # NoStr
         /\ \E r \in getStudentForTeacher(S, op.data.student_id, teacherId) :
                ~r.is_deleted
         /\ op.action = "delete" \/ op.data.status \in Statuses

UpdateOrDelete(e) ==
    /\ e.fault = "none"
    /\ e.op.entity \in {"student", "attendance"}
    /\ e.op.action \in {"update", "delete"}
    /\ TargetRows(e.pre, lastSync.teacher, e.op) # {}

ClientTime(e) == parseClientUpdatedAt(e.op.client_updated_at)
TargetOf(e) == The(TargetRows(e.pre, lastSync.teacher, e.op))

C4_SkippedWasApplied ==
    \A i \in TraceIdx :
        HasKind(Entry(i).out, "skipped") => AppliedEarlier(i)

\* C5 (as claimed): every update or delete whose target exists and whose
\* client_updated_at is not later than the stored updated_at is rejected as stale,
\* with the server's updated_at, and changes nothing.
C5_StaleRejected_AsClaimed ==
    \A i \in TraceIdx :
        (UpdateOrDelete(Entry(i)) /\ ClientTime(Entry(i)) # Null
         /\ ClientTime(Entry(i)) <= TargetOf(Entry(i)).updated_at)
        => /\ Len(Entry(i).out) = 1
           /\ Entry(i).out[1].kind = "rejected"
           /\ Entry(i).out[1].reason = "Stale update (LWW)"
           /\ Entry(i).out[1].server_updated_at = TargetOf(Entry(i)).updated_at
           /\ RowsUnchanged(Entry(i))

\* what the dedupe ledger and the payload checks let through to the LWW comparison
ReachesLww(e) ==
    /\ Validated(e.op)
    /\ ~DedupeCollides(e.pre, lastSync.teacher, e.op.op_id)
    /\ PayloadAccepted(e.pre, lastSync.teacher, e.op)

\* C5 (amended): the same, for operations that pass validation, carry an op_id that
\* is not in the ledger yet, and (attendance) refer to a live roster entry.
C5_StaleRejected ==
    \A i \in TraceIdx :
        (UpdateOrDelete(Entry(i)) /\ ReachesLww(Entry(i))
         /\ ClientTime(Entry(i)) <= TargetOf(Entry(i)).updated_at)
        => /\ Len(Entry(i).out) = 1
           /\ Entry(i).out[1].kind = "rejected"
           /\ Entry(i).out[1].reason = "Stale update (LWW)"
           /\ Entry(i).out[1].server_updated_at = TargetOf(Entry(i)).updated_at
           /\ RowsUnchanged(Entry(i))

C5_Witness ==
    \E i \in TraceIdx :
        /\ UpdateOrDelete(Entry(i)) /\ ReachesLww(Entry(i))
        /\ ClientTime(Entry(i)) = TargetOf(Entry(i)).updated_at
        /\ Entry(i).op.entity = "attendance"
        /\ Entry(i).out[1].reason = "Stale update (LWW)"

\* the stored record after the iteration: the row with the target's id
TargetAfter(e) ==
    IF e.op.entity = "student"
    THEN The({r \in e.post.students : r.id = TargetOf(e).id})
    ELSE The({r \in e.post.attendance : r.id = TargetOf(e).id})

ChangeApplied(e) ==
    LET before == TargetOf(e)
        after  == TargetAfter(e)
    IN  /\ after.updated_at = lastSync.server_time
        /\ after.updated_at >= before.updated_at
        /\ IF e.op.action = "delete" THEN after.is_deleted
           ELSE /\ ~after.is_deleted
                /\ IF e.op.entity = "student"
                   THEN after.name = e.op.data.name /\ after.roll_no = e.op.data.roll_no
                   ELSE after.status = e.op.data.status

\* C6 (as claimed): every update or delete whose target exists and whose
\* client_updated_at is later than the stored updated_at is applied, and the stored
\* updated_at becomes the server's time, not smaller than before.
C6_NewerApplied_AsClaimed ==
    \A i \in TraceIdx :
        (UpdateOrDelete(Entry(i)) /\ ClientTime(Entry(i)) # Null
         /\ ClientTime(Entry(i)) > TargetOf(Entry(i)).updated_at)
        => /\ HasKind(Entry(i).out, "applied")
           /\ ChangeApplied(Entry(i))

\* C6 (amended): the same, for operations that pass validation, carry an op_id that
\* is not in the ledger yet, refer (attendance) to a live roster entry and (student
\* update) do not move the row onto a roll number another row of the teacher holds.
C6_NewerApplied ==
    \A i \in TraceIdx :
        (UpdateOrDelete(Entry(i)) /\ ReachesLww(Entry(i))
         /\ ClientTime(Entry(i)) > TargetOf(Entry(i)).updated_at
         /\ ~(Entry(i).op.entity = "student" /\ Entry(i).op.action = "update"
              /\ RollTaken(Entry(i).pre, lastSync.teacher, Entry(i).op.data.roll_no,
                           TargetOf(Entry(i)).id)))
        => /\ HasKind(Entry(i).out, "applied")
           /\ ChangeApplied(Entry(i))

C6_Witness ==
    \E i \in TraceIdx :
        /\ UpdateOrDelete(Entry(i)) /\ ReachesLww(Entry(i))
        /\ ClientTime(Entry(i)) > TargetOf(Entry(i)).updated_at
        /\ Entry(i).op.action = "delete"
        /\ HasKind(Entry(i).out, "applied")
        /\ TargetAfter(Entry(i)).is_deleted
        /\ TargetAfter(Entry(i)).updated_at > TargetOf(Entry(i)).updated_at

\* Scenario B: Present at T = 1 and Absent at T + 1 for roster entry 1 on TheDate
PresentAtT(op) ==
    /\ op.entity = "attendance" /\ op.action \in {"create", "update"}
    /\ op.data.student_id = 1 /\ op.data.date = TheDate
    /\ op.data.status = "Present" /\ op.client_updated_at = Iso(1)

AbsentAtT1(op) ==
    /\ op.entity = "attendance" /\ op.action \in {"create", "update"}
    /\ op.data.student_id = 1 /\ op.data.date = TheDate
    /\ op.data.status = "Absent" /\ op.client_updated_at = Iso(2)

\* both operations are processed for the first time, by working storage, against a
\* live roster entry that has no mark for the date yet
ScenarioB ==
    /\ Len(lastSync.trace) = 2
    /\ lastSync.teacher = "t1"
    /\ \/ PresentAtT(Entry(1).op) /\ AbsentAtT1(Entry(2).op)
       \/ AbsentAtT1(Entry(1).op) /\ PresentAtT(Entry(2).op)
    /\ Entry(1).op.op_id # Entry(2).op.op_id
    /\ \A i \in TraceIdx : /\ Entry(i).fault = "none"
                           /\ ReachesLww(Entry(i))
                           /\ ~DedupeCollides(Entry(1).pre, "t1", Entry(i).op.op_id)
    /\ AttendanceByKey(Entry(1).pre, "t1", 1, TheDate) = {}

\* C3 (as claimed): after Present at T and Absent at T + 1 have both been processed,
\* in either arrival order, the stored status is Absent, the status of the operation
\* with client_updated_at = T + 1.
C3_LaterTimestampWins ==
    ScenarioB =>
        \A r \in AttendanceByKey(Entry(2).post, "t1", 1, TheDate) : r.status = "Absent"

\* C12 (as claimed): every operation of the request gets exactly one verdict, so
\* applied, skipped and rejected together have as many entries as the request has
\* operations.
C12_OneVerdictPerOperation ==
    /\ Len(lastSync.trace) = Len(lastSync.operations)
    /\ \A i \in TraceIdx : Len(Entry(i).out) = 1
    /\ Len(lastSync.applied) + Len(lastSync.skipped) + Len(lastSync.rejected)
           = Len(lastSync.operations)

\* the iteration gets as far as a call of the store
ReachesStore(e) ==
    /\ Validated(e.op)
    /\ ~DedupeCollides(e.pre, lastSync.teacher, e.op.op_id)
    /\ IF e.op.entity = "student"
       THEN \/ e.op.action = "delete"
               /\ (e.op.data.id # None \/ e.op.data.roll_no # None)
            \/ e.op.action \in {"create", "update"}
               /\ e.op.data.name # NoStr /\ e.op.data.roll_no > 0
       ELSE /\ e.op.entity = "attendance"
            /\ e.op.data.student_id # None /\ e.op.data.date # NoStr

\* a call of the store made for the operation returned an unexpected error
StorageErrorRaised(e) ==
    \/ e.fault = "dedupe" /\ Validated(e.op)
    \/ e.fault = "store" /\ ReachesStore(e)

RowsOf(S) == [students |-> S.students, attendance |-> S.attendance]

\* C13: when a call of the store fails while an operation is processed, the
\* operation is reported under rejected with reason "Server error", the rows the
\* earlier operations of the batch wrote are still stored when the request ends, and
\* every later operation of the batch is processed and gets a verdict.
C13_StorageErrorIsolated ==
    \A i \in TraceIdx :
        StorageErrorRaised(Entry(i)) =>
            /\ Entry(i).out = <<ServerError(Entry(i).op)>>
            /\ RowsOf(Entry(i).post) = RowsOf(Entry(i).pre)
            /\ \A j \in 1..(i - 1) : Entry(j + 1).pre = Entry(j).post
            /\ Len(lastSync.trace) = Len(lastSync.operations)
            /\ \A j \in (i + 1)..Len(lastSync.operations) :
                   /\ Entry(j).op = lastSync.operations[j]
                   /\ Entry(j).pre = Entry(j - 1).post
                   /\ Len(Entry(j).out) >= 1
            /\ RowsOf(CurrentStore) = RowsOf(Entry(Len(lastSync.trace)).post)

\* three operations: the first inserts an attendance row, the second fails, the
\* third updates a roster row (a fresh op_id, a newer timestamp)
C13_Witness ==
    /\ Len(lastSync.trace) = 3
    /\ HasKind(Entry(1).out, "applied")
    /\ Entry(1).post.attendance # Entry(1).pre.attendance
    /\ StorageErrorRaised(Entry(2)) /\ Entry(2).fault = "store"
    /\ HasKind(Entry(3).out, "applied")
    /\ Entry(3).post.students # Entry(3).pre.students
    /\ attendance = Entry(1).post.attendance


\* a valid student create on a (principal, roll number) the server holds no row for,
\* processed by a store that works
NewStudentCreate(e) ==
    /\ e.fault = "none"
    /\ Validated(e.op)
    /\ e.op.entity = "student" /\ e.op.action = "create"
    /\ e.op.data.name # NoStr /\ e.op.data.roll_no > 0
    /\ StudentByRoll(e.pre, lastSync.teacher, e.op.data.roll_no) = {}

\* the verdict of the iteration is applied, with the id of a row that was not stored
\* before and that now holds the payload
MintedId(e) ==
    /\ Len(e.out) = 1
    /\ e.out[1].kind = "applied"
    /\ e.out[1].id \notin {r.id : r \in e.pre.students}
    /\ \E r \in e.post.students :
        /\ r.id = e.out[1].id
        /\ r.teacher_id = lastSync.teacher
        /\ r.roll_no = e.op.data.roll_no /\ r.name = e.op.data.name
        /\ \A o \in e.post.students : o.id = r.id => o = r

\* C18 (as claimed): every valid student create on a (principal, roll number) with
\* no stored row is returned under applied with a newly minted id.
C18_NewStudentCreateApplied ==
    \A i \in TraceIdx : NewStudentCreate(Entry(i)) => MintedId(Entry(i))


\* the roster entries of the caller that are not soft-deleted
LiveStudents(S, teacherId) ==
    {r \in S.students : r.teacher_id = teacherId /\ ~r.is_deleted}

\* an attendance operation whose roster entry does not exist for the caller, or is
\* soft-deleted
DanglingAttendance(e) ==
    /\ e.op.entity = "attendance"
    /\ \A r \in LiveStudents(e.pre, lastSync.teacher) : r.id # e.op.data.student_id

\* the attendance rows an iteration inserted or changed
WrittenAttendance(e) == e.post.attendance \ e.pre.attendance

\* C19 (as claimed): an attendance operation whose roster entry is missing or
\* soft-deleted is returned under rejected and writes no attendance row.
C19_DanglingAttendanceRejected_AsClaimed ==
    \A i \in TraceIdx :
        DanglingAttendance(Entry(i)) =>
            /\ Len(Entry(i).out) = 1
            /\ Entry(i).out[1].kind = "rejected"
            /\ Entry(i).post.attendance = Entry(i).pre.attendance

\* C19 (amended): such an operation is returned under rejected, or under skipped
\* when its op_id is in the ledger already; it is never applied and writes no
\* attendance row.  Every attendance row POST /sync writes belongs to the caller and
\* refers to a roster entry of the caller that was not soft-deleted at that moment.
C19_DanglingAttendanceRejected ==
    \A i \in TraceIdx :
        /\ DanglingAttendance(Entry(i)) =>
            /\ Len(Entry(i).out) = 1
            /\ Entry(i).out[1].kind \in {"rejected", "skipped"}
            /\ Entry(i).out[1].kind = "skipped"
                   => DedupeCollides(Entry(i).pre, lastSync.teacher, Entry(i).op.op_id)
            /\ Entry(i).post.attendance = Entry(i).pre.attendance
        /\ \A row \in WrittenAttendance(Entry(i)) :
            /\ row.teacher_id = lastSync.teacher
            /\ \E r \in LiveStudents(Entry(i).pre, lastSync.teacher) :
                   r.id = row.student_id

\* a mark for a roster entry of the caller that an earlier request soft-deleted
C19_Witness ==
    \E i \in TraceIdx :
        /\ Entry(i).op.entity = "attendance" /\ Entry(i).op.action = "create"
        /\ \E r \in Entry(i).pre.students :
            r.id = Entry(i).op.data.student_id /\ r.teacher_id = lastSync.teacher
            /\ r.is_deleted
        /\ Entry(i).out = <<Rejected(Entry(i).op, "Student is deleted")>>
        /\ Entry(i).post.attendance = Entry(i).pre.attendance


-----------------------------------------------------------------------------
(* Properties of the sync driver, stated on the run that has just settled *)

QueueIdsNow == {sync_queue[i].id : i \in 1..Len(sync_queue)}
RowNow(id) == The({sync_queue[i] : i \in {k \in 1..Len(sync_queue) : sync_queue[k].id = id}})

RowsAtRead == {run.queueAtRead[i] : i \in 1..Len(run.queueAtRead)}
BatchRows  == {batch[i] : i \in 1..Len(batch)}

RowOpId(row) == toSyncOperation(row).op_id

ItemsOf(verdicts, opId) ==
    {verdicts[n] : n \in {k \in 1..Len(verdicts) : verdicts[k].op_id = opId}}

Settled == pc = "finally"

QueueIds == 1..MaxQueue

BatchIds == {batch[i].id : i \in 1..Len(batch)}
IdsAtRead == {run.queueAtRead[i].id : i \in 1..Len(run.queueAtRead)}

\* C1: at most one run of syncNow is in flight; a run issues at most one POST; a
\* call made while a run is in flight starts nothing and is handed the promise of
\* that run.
C1_SingleRunInFlight ==
    /\ run.active <= 1
    /\ run.posts <= 1
    /\ (run.active = 1) <=> syncInFlight
    /\ run.callInFlight => run.call = "joined"

C1_Witness ==
    /\ run.call = "joined"
    /\ run.callInFlight
    /\ run.posts = 1
    /\ Settled /\ run.outcome = "ok"

\* C7 (as claimed): a queue row is removed only if the response lists its op_id
\* under applied; a row whose op_id is listed under rejected or skipped, or is not
\* in the response, is still in the queue when the run settles.
C7_RemovedOnlyIfApplied ==
    Settled =>
        \A row \in RowsAtRead :
            LET body == response.body
                opId == RowOpId(row)
            IN  /\ row.id \notin QueueIdsNow => ItemsOf(body.applied, opId) # {}
                /\ ItemsOf(body.rejected, opId) # {} => row.id \in QueueIdsNow
                /\ ItemsOf(body.skipped, opId) # {} => row.id \in QueueIdsNow
                /\ ItemsOf(body.applied \o body.rejected \o body.skipped, opId) = {}
                       => row.id \in QueueIdsNow

\* C8 (as claimed): every attendance operation of a POST carries the server id of
\* its roster entry (student_id).
C8_AttendanceSentWithServerId ==
    pc = "fetch" =>
        \A i \in 1..Len(request) :
            request[i].entity = "attendance" => request[i].data.student_id # None

\* the local record a create operation was enqueued for
LocalRecordOf(row) ==
    IF row.table_name = "student"
    THEN {s \in students_local : s.local_id = row.record_id}
    ELSE {a \in attendance_local : a.local_id = row.record_id}

\* C9 (as claimed): after a run that got a successful response, no create
\* operation that was queued when the run read its batch is still in the queue, and
\* the local record it was enqueued for has a server id.
C9_CreateRoundTrip_AsClaimed ==
    (Settled /\ run.outcome = "ok") =>
        \A row \in RowsAtRead :
            row.op_type = "create" =>
                /\ row.id \notin QueueIdsNow
                /\ \A rec \in LocalRecordOf(row) : rec.server_id # None

\* C9 (amended): after a run whose response lists a create operation under applied,
\* the queue no longer holds that operation and the local record it was enqueued
\* for carries the id of the applied verdict.
C9_CreateRoundTrip ==
    (Settled /\ run.outcome = "ok") =>
        \A row \in RowsAtRead :
            row.op_type = "create" =>
                \A item \in ItemsOf(response.body.applied, RowOpId(row)) :
                    /\ row.id \notin QueueIdsNow
                    /\ LocalRecordOf(row) # {}
                    /\ \A rec \in LocalRecordOf(row) : rec.server_id = item.id

C9_Witness ==
    /\ Settled /\ run.outcome = "ok"
    /\ \E row \in RowsAtRead :
        /\ row.op_type = "create" /\ row.table_name = "student"
        /\ \E item \in ItemsOf(response.body.applied, RowOpId(row)) :
               \E rec \in LocalRecordOf(row) : rec.server_id = item.id /\ item.id = 3
        /\ row.id \notin QueueIdsNow

\* C10 (as claimed): when the POST has failed, by a rejected fetch or by a non-2xx
\* response, every row of the batch has one attempt more and a next-retry time,
\* every queue row is otherwise as it was, and sync_error has been emitted.
C10_PostFailureSchedulesRetry ==
    (Settled /\ run.outcome \in {"threw", "http_error"}) =>
        /\ \A row \in BatchRows :
            /\ row.id \in QueueIdsNow
            /\ RowNow(row.id) = [row EXCEPT !.attempts = @ + 1]
            /\ \E e \in nextAttemptByQueueId : e[1] = row.id /\ e[2] > 0
        /\ \A row \in RowsAtRead \ BatchRows :
            row.id \in QueueIdsNow /\ RowNow(row.id) = row
        /\ \E n \in 1..Len(telemetry) : telemetry[n].type = "sync_error"

\* the queue row an operation of a request was built from
QueueIdOf(op) == CHOOSE id \in QueueIds : MatchesQueueId(op.op_id, id)

\* C14: in every batch the client sends, all student operations precede all
\* attendance operations, and within each kind the operations are in ascending
\* queue id; the batch holds the operations of the rows the run kept, once each.
C14_StudentsFirstOldestFirst ==
    pc = "fetch" =>
        /\ Len(request) = Len(batch)
        /\ \A row \in BatchRows :
               \E i \in 1..Len(request) : request[i] = toSyncOperation(row)
        /\ \A i, j \in 1..Len(request) :
               i < j =>
                   /\ ~(request[i].entity = "attendance" /\ request[j].entity = "student")
                   /\ request[i].entity = request[j].entity
                          => QueueIdOf(request[i]) < QueueIdOf(request[j])

\* an attendance operation queued before a student operation is sent after it
C14_Witness ==
    /\ pc = "fetch"
    /\ Len(request) = 2
    /\ request[1].entity = "student" /\ request[2].entity = "attendance"
    /\ QueueIdOf(request[2]) < QueueIdOf(request[1])

\* SyncStatusIndicator: the state an event puts the indicator in
StatusOf(event) ==
    IF event.type = "sync_start" THEN "syncing"
    ELSE IF event.type = "sync_end" THEN "idle"
    ELSE "error"

\* ... and its message
MessageOf(event) ==
    IF event.type = "sync_start" THEN "Syncing"
    ELSE IF event.type = "sync_end"
    THEN IF event.queued = 0 THEN "Up to date" ELSE "Synced"
    ELSE "Sync failed"

EventsOfType(types) == {n \in 1..Len(telemetry) : telemetry[n].type \in types}

\* C15 (as claimed): a run that has emitted sync_start has emitted exactly one
\* terminal event (sync_end or sync_error) after it when it ends, so the indicator
\* is not left in "syncing".
C15_StartHasOneTerminal ==
    (Settled /\ EventsOfType({"sync_start"}) # {}) =>
        /\ Cardinality(EventsOfType({"sync_end", "sync_error"})) = 1
        /\ \A s \in EventsOfType({"sync_start"}) :
               \A e \in EventsOfType({"sync_end", "sync_error"}) : s < e
        /\ StatusOf(telemetry[Len(telemetry)]) # "syncing"


\* the steps of a run that finds the queue empty
EmptyRunReads == pc = "getQueueBatch" /\ pc' = "finally" /\ sync_queue = <<>>
EmptyRunEnds  == pc = "finally" /\ pc' = "idle" /\ run.outcome = "empty"

\* C20: a run of syncNow that is online and finds the queue empty sends no request,
\* changes no local row, no row of the server and no retry time, and emits one
\* event, sync_end with queued = 0, which the indicator shows as "Up to date"; this
\* holds for every such run, the second in a row included.
C20_EmptyQueueNoOp ==
    [][/\ EmptyRunReads =>
           /\ UNCHANGED <<localVars, serverVars, nextAttemptByQueueId, request, response>>
           /\ request = <<>> /\ response = NoResponse
           /\ run'.posts = 0
           /\ telemetry' = <<Event("sync_end", 0, 0, 0)>>
           /\ StatusOf(telemetry'[1]) = "idle"
           /\ MessageOf(telemetry'[1]) = "Up to date"
       /\ EmptyRunEnds =>
           /\ UNCHANGED <<localVars, serverVars, nextAttemptByQueueId>>
           /\ ~syncInFlight'
      ]_vars

\* the second run in a row that found the queue empty has settled
C20_Witness ==
    /\ Settled /\ run.outcome = "empty"
    /\ run.lastEmpty
    /\ run.posts = 0
    /\ sync_queue = <<>>
    /\ telemetry = <<Event("sync_end", 0, 0, 0)>>

-----------------------------------------------------------------------------
(* Properties of the sync driver over whole behaviours *)

\* the POST of queue row id reached the server, which applied it, and the response
\* was lost on the way back
LostApplied(id) ==
    /\ Settled /\ run.outcome = "threw"
    /\ \E row \in BatchRows : row.id = id /\ RowOpId(row) \in run.lostApplied

\* a run got through with connectivity: it found the queue empty or got a successful
\* response, and row id, if it was queued, was part of the POST
Covered(id) ==
    /\ Settled /\ run.outcome \in {"ok", "empty"}
    /\ id \in IdsAtRead => id \in BatchIds

Gone(id) == id \notin QueueIdsNow

\* C11 (as claimed, the queue part): when the server has applied an operation and the
\* response was lost, then, provided runs with connectivity that cover the operation
\* keep happening, the operation is eventually removed from the client queue.
C11_LostResponseRecovers ==
    \A id \in QueueIds :
        ([]<>Covered(id)) => [](LostApplied(id) => <>Gone(id))


\* the response of the run that has just settled lists row id under rejected, and not
\* under applied: the row stays queued
RejectedRow(id) ==
    /\ Settled /\ run.outcome = "ok"
    /\ \E row \in BatchRows :
        /\ row.id = id
        /\ ItemsOf(response.body.rejected, RowOpId(row)) # {}
        /\ ItemsOf(response.body.applied, RowOpId(row)) = {}

\* a POST that carries the operation of row id is in flight
Sent(id) ==
    /\ pc = "fetch"
    /\ \E i \in 1..Len(request) : MatchesQueueId(request[i].op_id, id)

\* a run has read the queue with row id in it and left the row out of its batch
HeldBack(id) ==
    /\ pc \in {"fetch", "finally"}
    /\ id \in IdsAtRead
    /\ id \notin BatchIds

\* C16 (as claimed): once the server has rejected an operation, it is not sent again
\* on every later run for ever: some later run holds it back, or it stops being sent.
C16_RejectedNotResentForever ==
    \A id \in QueueIds :
        [](RejectedRow(id) => (<>HeldBack(id) \/ <>[]~Sent(id)))


Queued(id) == id \in QueueIdsNow

RunOk == Settled /\ run.outcome = "ok"

PostFailed == Settled /\ run.outcome \in {"threw", "http_error"}

\* C17 (as claimed): with a queue deeper than the batch size, provided runs keep
\* getting a successful response and no POST fails, every queued operation is
\* eventually part of a POST (a row that has left the queue was part of one: rows
\* are removed for an applied verdict only).
C17_EveryOperationEventuallySent ==
    ([]<>RunOk /\ []~PostFailed) =>
        \A id \in QueueIds : [](Queued(id) => <>(Sent(id) \/ Gone(id)))


-----------------------------------------------------------------------------
(* Properties of the local store and of the queue *)

\* C21 (as claimed): upsertStudentLocal called without a local id for a roll number
\* that has a local row updates that row: the call does not fail, the row is not
\* soft-deleted afterwards, and the roster holds one row for the roll number.
C21_UpsertByRollUpdates ==
    /\ lastAdd.found => (~lastAdd.threw /\ lastAdd.live)
    /\ \A a, b \in students_local : a.roll_no = b.roll_no => a = b


\* the step in which a run reads the queue and builds its batch
ReadsBatch == pc = "getQueueBatch" /\ pc' # "getQueueBatch"

\* the queued operations whose next-retry time has elapsed or was never set
DueRows == SelectSeq(sync_queue, DueNow)

\* the oldest of them, up to the batch size
OldestDue == SubSeq(DueRows, 1, Min(BatchLimit, Len(DueRows)))

\* C22 (as claimed): the batch a run sends consists of the oldest operations, up to
\* the batch size, among the queued operations that are due; an operation whose
\* next-retry time lies in the future is not sent.
C22_BatchIsOldestDue ==
    [][ReadsBatch =>
           /\ batch' = OldestDue
           /\ (pc' = "fetch") <=> (OldestDue # <<>>)
           /\ pc' = "fetch" =>
                  /\ Len(request') = Len(OldestDue)
                  /\ \A i \in 1..Len(OldestDue) :
                         \E n \in 1..Len(request') :
                             request'[n] = toSyncOperation(OldestDue[i])
      ]_vars


\* the rows of the queue before and after a step that are the same row (same id)
SameRow(old, new) == old.id = new.id

\* the only changes a queued row undergoes: attempts is incremented; a server id is
\* written into an attendance payload that had none
RowKept(old, new) ==
    /\ new = [old EXCEPT !.attempts = new.attempts,
                         !.payload.student_id = new.payload.student_id]
    /\ new.attempts \in {old.attempts, old.attempts + 1}
    /\ new.payload.student_id # old.payload.student_id =>
           /\ old.table_name = "attendance"
           /\ old.payload.student_id = None
           /\ new.payload.student_id # None

\* C23: after a queue row is enqueued its id, record_id, entity, action and
\* client_updated_at never change; the only mutations are the increment of attempts
\* and the writing of a newly learned server id into the payload; ids are not
\* reused; so the op_id derived from a row is the same on every send of the row.
C23_QueueRowsImmutable ==
    [][/\ \A i \in 1..Len(sync_queue) : \A j \in 1..Len(sync_queue') :
              SameRow(sync_queue[i], sync_queue'[j]) =>
                  /\ RowKept(sync_queue[i], sync_queue'[j])
                  /\ RowOpId(sync_queue'[j]) = RowOpId(sync_queue[i])
       /\ \A j \in 1..Len(sync_queue') :
              sync_queue'[j].id \notin QueueIdsNow =>
                  /\ sync_queue'[j].id > queueSeq
                  /\ sync_queue'[j].attempts = 0
       /\ (ReadsBatch /\ pc' = "fetch") =>
              \A n \in 1..Len(request') :
                  \E i \in 1..Len(sync_queue) :
                      /\ request'[n].op_id = OpIdOf(sync_queue[i].id, sync_queue[i].record_id)
                      /\ request'[n].client_updated_at = sync_queue[i].client_updated_at
      ]_vars

\* a run has settled that patched the server id of a roster entry into an attendance
\* row that was queued without one; the row is still queued, under the same op_id
C23_Witness ==
    /\ Settled /\ run.outcome = "ok"
    /\ \E row \in RowsAtRead :
        /\ row.table_name = "attendance"
        /\ row.payload.student_id = None
        /\ row.id \in QueueIdsNow
        /\ RowNow(row.id).payload.student_id # None
        /\ RowOpId(RowNow(row.id)) = RowOpId(row)


\* what a principal owns in the store: its roster and attendance rows and its
\* entries of the dedupe ledger
OwnedBy(S, teacherId) ==
    [students   |-> {r \in S.students : r.teacher_id = teacherId},
     attendance |-> {r \in S.attendance : r.teacher_id = teacherId},
     dedupe     |-> {d \in S.dedupe : d[1] = teacherId}]

\* the store with nothing in it but what the principal owns; the id sequences stay
OnlyOf(S, teacherId) ==
    [S EXCEPT !.students = OwnedBy(S, teacherId).students,
              !.attendance = OwnedBy(S, teacherId).attendance,
              !.dedupe = OwnedBy(S, teacherId).dedupe]

Teachers == {"t1", "t2"}

\* the observed request: the store it started from, its faults, its verdicts
ObservedPre    == Entry(1).pre
ObservedPost   == Entry(Len(lastSync.trace)).post
ObservedFaults == [i \in TraceIdx |-> Entry(i).fault]
VerdictsOf(trace) == [i \in 1..Len(trace) |-> trace[i].out]

\* the observed request handled from store S instead
Replayed(S) ==
    ProcessBatch(S, lastSync.teacher, lastSync.operations, ObservedFaults,
                 lastSync.server_time, <<>>)

\* the observed request has the same verdicts and leaves its principal the same
\* rows and ledger entries when it is handled from store S
SameOutcomeFrom(S) ==
    /\ VerdictsOf(Replayed(S).trace) = VerdictsOf(lastSync.trace)
    /\ OwnedBy(Replayed(S).S, lastSync.teacher) = OwnedBy(ObservedPost, lastSync.teacher)

\* C24 (as claimed): the verdicts returned to a principal and its stored rows are
\* the same whether or not another principal submitted operations before.
C24_PrincipalsIsolated_AsClaimed ==
    lastSync.trace # <<>> =>
        \A qa \in Requests :
            qa.teacher # lastSync.teacher =>
                SameOutcomeFrom(ProcessBatch(ObservedPre, qa.teacher, qa.ops, qa.faults,
                                             lastSync.server_time, <<>>).S)

\* C24 (amended): POST /sync changes no row and no ledger entry of another
\* principal, and its verdicts and the rows of its principal are the same whether or
\* not rows and ledger entries of other principals are in the store, ones that use
\* the same op_ids or record ids included; they depend on the store's id sequences.
C24_PrincipalsIsolated ==
    lastSync.trace # <<>> =>
        /\ \A t \in Teachers \ {lastSync.teacher} :
               OwnedBy(ObservedPost, t) = OwnedBy(ObservedPre, t)
        /\ SameOutcomeFrom(OnlyOf(ObservedPre, lastSync.teacher))

\* t1's operation is applied under an op_id that is in the ledger for t2, while t2
\* holds a row with the same roll number
C24_Witness ==
    /\ lastSync.teacher = "t1"
    /\ \E i \in TraceIdx :
        /\ <<"t2", Entry(i).op.op_id>> \in Entry(i).pre.dedupe
        /\ Entry(i).op.entity = "student" /\ Entry(i).op.action = "create"
        /\ HasKind(Entry(i).out, "applied")
        /\ \E r \in Entry(i).pre.students :
               r.teacher_id = "t2" /\ r.roll_no = Entry(i).op.data.roll_no


\* an operation without op_id, without entity or action, or whose client_updated_at
\* is missing or is not the text of an instant
Malformed(op) ==
    \/ op.op_id = NoStr
    \/ op.entity = NoStr
    \/ op.action = NoStr
    \/ op.client_updated_at.kind # "iso"

\* C25: a malformed operation is returned under rejected with a reason and has no
\* side effect: no ledger entry is written, no roster or attendance row is created
\* or changed, no id is minted.
C25_MalformedRejectedNoEffect ==
    \A i \in TraceIdx :
        Malformed(Entry(i).op) =>
            /\ Len(Entry(i).out) = 1
            /\ Entry(i).out[1].kind = "rejected"
            /\ Entry(i).out[1].reason \in {"Missing op_id", "Missing entity or action",
                                           "Invalid client_updated_at"}
            /\ Entry(i).post = Entry(i).pre

\* an operation with a client_updated_at that is no instant, under an op_id the
\* ledger does not hold, is rejected and the ledger still does not hold its op_id
C25_Witness ==
    \E i \in TraceIdx :
        /\ Entry(i).op.client_updated_at = BadDate
        /\ Entry(i).op.op_id # NoStr
        /\ Entry(i).out = <<Rejected(Entry(i).op, "Invalid client_updated_at")>>
        /\ Entry(i).pre.dedupe # {}
        /\ ~DedupeCollides(Entry(i).post, lastSync.teacher, Entry(i).op.op_id)
        /\ sync_dedupe = Entry(i).pre.dedupe


MaxAttempts == 8      \* attempt counts 0..MaxAttempts, past the cap of the backoff

\* the step in which the POST of a run fails: fetch rejects, or the response that
\* has arrived is not ok and is handled
FetchFails == pc = "fetch" /\ pc' = "finally"
Non2xxHandled == pc = "response" /\ ~response.ok /\ pc' = "finally"

\* row is scheduled for retry no earlier than the backoff of its next attempt count
\* after the failure and no later than 60 seconds after it
RetryScheduled(row) ==
    \E e \in nextAttemptByQueueId' :
        /\ e[1] = row.id
        /\ e[2] >= DateNow + computeBackoffMs(row.attempts + 1)
        /\ e[2] <= DateNow + 60000

BackoffFormula ==
    \A a \in 0..MaxAttempts :
        /\ computeBackoffMs(a) = Min(60000, 1000 * (2 ^ a))
        /\ computeBackoffMs(a) <= computeBackoffMs(a + 1)

\* C26 (as claimed): computeBackoffMs(a) = min(60000, 1000 * 2^a) for every attempt
\* count a >= 0 and is non-decreasing; after a failed POST every row of the batch is
\* scheduled for retry no earlier than computeBackoffMs(n + 1) after the failure,
\* n its stored attempt count, and no later than 60 seconds after it.
C26_BackoffSchedule ==
    /\ BackoffFormula
    /\ [][(FetchFails \/ Non2xxHandled) => \A row \in BatchRows : RetryScheduled(row)]_vars


\* the step in which POST /sync has handled the request of the run and its response
\* has arrived
ResponseArrives == pc = "fetch" /\ pc' = "response" /\ response'.ok

\* two operations of the client on the same record: the same roster entry (roll
\* number), or the mark of the same roster entry and date
SameRecord(a, b) ==
    /\ a.entity = b.entity
    /\ IF a.entity = "attendance"
       THEN a.data.student_id = b.data.student_id /\ a.data.date = b.data.date
       ELSE a.data.roll_no = b.data.roll_no

\* a create or update that reaches the server for the first time and passes the
\* checks of its payload against the store as it is
FirstArrival(op) ==
    /\ op.action \in {"create", "update"}
    /\ ~DedupeCollides(CurrentStore, ClientTeacher, op.op_id)
    /\ PayloadAccepted(CurrentStore, ClientTeacher, op)

\* the record of the operation, as stored after the step, holds what the operation says
StoredAsSent(op) ==
    IF op.entity = "attendance"
    THEN \E r \in attendance' :
             /\ r.teacher_id = ClientTeacher /\ r.student_id = op.data.student_id
             /\ r.date = op.data.date
             /\ r.status = op.data.status /\ ~r.is_deleted
    ELSE \E r \in students' :
             /\ r.teacher_id = ClientTeacher /\ r.roll_no = op.data.roll_no
             /\ r.name = op.data.name /\ ~r.is_deleted

AppliedInResponse(op) ==
    \E n \in 1..Len(response'.body.applied) : response'.body.applied[n].op_id = op.op_id

\* C27 (as claimed): when the queue holds two operations on the same record with
\* increasing client_updated_at and they reach the server in queue order, both are
\* applied and the stored record is that of the later operation.
C27_QueueOrderLastWins ==
    [][ResponseArrives =>
           \A i, j \in 1..Len(request) :
               (/\ i < j
                /\ SameRecord(request[i], request[j])
                /\ request[i].client_updated_at.t < request[j].client_updated_at.t
                /\ FirstArrival(request[i]) /\ FirstArrival(request[j])
                /\ \A k \in (j + 1)..Len(request) : ~SameRecord(request[j], request[k]))
               => /\ AppliedInResponse(request[i])
                  /\ AppliedInResponse(request[j])
                  /\ StoredAsSent(request[j])
      ]_vars



\* the operations queued on the installation in use, as they would be sent
QueuedNow ==
    {[install |-> installs, op |-> toSyncOperation(sync_queue[i])] :
        i \in 1..Len(sync_queue)}

\* operations queued on different installations carry different op_ids (the rows of
\* one installation differ in their id, which the op_id holds)
OpIdsDistinct ==
    \A a \in posted \cup QueuedNow : \A b \in posted \cup QueuedNow :
        a.op.op_id = b.op.op_id => a.install = b.install

SkippedInResponse(op) ==
    \E n \in 1..Len(response'.body.skipped) : response'.body.skipped[n].op_id = op.op_id

\* C28 (as claimed): two distinct queued operations never carry the same op_id, also
\* when they are queued on two installations of the same teacher; and the server never
\* reports as skipped an operation whose content had not reached it before.
C28_OpIdsNeverShared ==
    [][/\ OpIdsDistinct'
       /\ ResponseArrives =>
              \A i \in 1..Len(request) :
                  SkippedInResponse(request[i]) =>
                      \E p \in posted : p.op = request[i]]_vars


\* the ways a run of syncNow ends
Outcomes == {"ok", "offline", "empty", "backoff", "http_error", "threw"}

RunEnds(outcome) == pc = "finally" /\ pc' = "idle" /\ run.outcome = outcome

CallWhileIdle == pc = "idle" /\ pc' # "idle"

\* C29: when a run ends, whatever its outcome, the guard is cleared; the guard is never
\* set while no run executes; and a call of syncNow made then starts a new run.
C29_GuardClearedAfterRun ==
    /\ pc = "idle" => ~syncInFlight
    /\ [][/\ \A outcome \in Outcomes : RunEnds(outcome) => ~syncInFlight'
          /\ pc' = "idle" => ~syncInFlight'
          /\ CallWhileIdle => (run'.call = "started" /\ syncInFlight')]_vars

\* a run was started by a call made after an earlier run had ended by an HTTP failure
\* (the retry it scheduled is still in the map)
C29_Witness ==
    /\ pc = "isOnline"
    /\ run.call = "started"
    /\ syncInFlight
    /\ nextAttemptByQueueId # {}


\* the row is in the queue after the step as it was before, attempts included
Untouched(row) ==
    \E j \in 1..Len(sync_queue') :
        /\ sync_queue'[j].id = row.id
        /\ sync_queue'[j].attempts = row.attempts

\* the row was enqueued after the call of syncNow that started the run in flight
EnqueuedInFlight(row) == syncInFlight /\ row.id > run.queueSeqAtStart

\* the run in flight has read its batch and the row was enqueued after that
EnqueuedAfterRead(row) ==
    /\ pc \in {"fetch", "response", "finally"}
    /\ row.id \notin IdsAtRead

\* C30 (as claimed): an operation enqueued while a run is in flight is not removed
\* and keeps its attempts while that run lasts.
C30_InFlightEnqueueUntouched_AsClaimed ==
    [][\A i \in 1..Len(sync_queue) :
           EnqueuedInFlight(sync_queue[i]) => Untouched(sync_queue[i])]_vars

\* C30 (amended): an operation enqueued after the run in flight has read its batch is
\* not removed and keeps its attempts while that run lasts; a step removes or bumps
\* only rows of the batch the run read.
C30_InFlightEnqueueUntouched ==
    [][\A i \in 1..Len(sync_queue) :
          /\ EnqueuedAfterRead(sync_queue[i]) => Untouched(sync_queue[i])
          /\ sync_queue[i].id \notin BatchIds => Untouched(sync_queue[i])]_vars

\* a run has removed a row of its batch and a row enqueued after the batch was read is
\* still queued
C30_Witness ==
    /\ Settled /\ run.outcome = "ok"
    /\ \E i \in 1..Len(batch) : batch[i].id \notin QueueIdsNow
    /\ \E i \in 1..Len(sync_queue) :
        /\ sync_queue[i].id \notin IdsAtRead
        /\ sync_queue[i].attempts = 0

=============================================================================
